---------------------------- MODULE Spec2Model ----------------------------
(***************************************************************************)
(* Model of the feature-based scheduler's scripted surveys                 *)
(* (surveys/scripted_surveys.py) and of the telemetry snapshot             *)
(* (features/conditions.py).                                               *)
(*                                                                         *)
(* Time is counted in integer ticks; an observation is a record with the   *)
(* fields mjd, RA, dec, filter and note.  A note is a sequence of tokens,  *)
(* so that "tag in note" is a real substring test.                         *)
(***************************************************************************)
EXTENDS Integers, Sequences, FiniteSets, TLC

VARIABLES
    observing_queue,  \* Pairs_survey_scripted.observing_queue
    clock,            \* the mjd the scheduling loop has reached
    last,             \* the last call: operation, arguments, outcome
    has_script,       \* Scripted_survey: set_script has created obs_wanted, obs_log, mjd_tol
    obs_wanted,       \* Scripted_survey.obs_wanted
    obs_log,          \* Scripted_survey.obs_log
    mjd_tol,          \* Scripted_survey.mjd_tol, in ticks
    cond,             \* a Conditions object: its raw fields and its caches
    dd,               \* a Deep_drilling_survey object, once constructed
    delivered         \* the mjd of the last executed observation a night delivered

pairs_vars == <<observing_queue, clock, delivered>>

script_vars == <<has_script, obs_wanted, obs_log, mjd_tol>>

vars == <<pairs_vars, script_vars, cond, dd, last>>

---------------------------------------------------------------------------
(* Bounds of the model *)

MaxQueue == 2      \* add_observation is not offered on a longer pair queue
MaxMjd == 4        \* the clock runs over 0..MaxMjd
MaxObsMjd == 1     \* executed observations carry an mjd in 0..MaxObsMjd
MaxScript == 2     \* add_to_script is not offered on a longer script
MaxPairCount == 1  \* the Pair_in_night counter read by add_observation is in 0..MaxPairCount
MaxCount == 2      \* the observation counters read by the deep drilling reward are in 0..MaxCount
MaxVis == 2        \* a deep drilling survey is configured with 0..MaxVis visits per filter

---------------------------------------------------------------------------
(* Configuration of Pairs_survey_scripted (constructor arguments) *)

ttol == 2               \* time tolerance when gathering a pair, in ticks
dt == 2                 \* ideal gap between the two visits of a pair, in ticks
reward_val == 101
max_slew_to_pair == 15
min_alt == 30
max_alt == 85
filt_to_pair == {"g", "r"}
ignore_obs == << <<"ack">> >>      \* a str ignore_obs is made a one-element list
note == <<"scripted">>

None == "None"
UNSEEN == -1            \* healpy's no-data sentinel, masked in M5Depth

Filters == {"g", "r", "u"}
Pixels == {1, 2}
RAs == {1, 2}
Decs == {1}

Abs(x) == IF x < 0 THEN -x ELSE x

\* tag in note, for str operands: tag occurs as a contiguous run of note
IsSubstr(tag, s) ==
    \E i \in 1..(Len(s) + 1) :
        /\ i + Len(tag) - 1 <= Len(s)
        /\ \A k \in 1..Len(tag) : s[i + k - 1] = tag[k]

\* _raDec2Hpid: several sky positions fall into one pixel of the grid
raDec2Hpid(ra, dec) == ((ra - 1) % Cardinality(Pixels)) + 1

\* _approx_RaDec2AltAz with lmst given: the altitude (degrees) of a position
\* at a local sidereal time.  At lmst 1 the position RA 1 sits on the lower
\* edge of the band, at lmst 0 everything is well inside it.
approx_RaDec2AltAz(ra, dec, lmst) ==
    IF lmst = 1 /\ ra % 2 = 1 THEN min_alt ELSE 60

Notes == { <<>>, <<"x", "ack">> }

\* np.max(self.extra_features['Pair_map'].feature[indx]): how many pairs the
\* feature has counted tonight on the pixels of the executed observation
PairCounts == 0..MaxPairCount

Observations ==
    [mjd : 0..MaxObsMjd, RA : RAs, dec : Decs, filter : Filters, note : Notes]

\* Telemetry snapshots handed to the pairs survey.
LmstValues == {0, 1}
SlewMaps == { [p \in Pixels |-> 5], [p \in Pixels |-> IF p = 2 THEN 20 ELSE 5] }
M5Maps ==
    { [f \in filt_to_pair |-> [p \in Pixels |->
          IF (f = "g" /\ gmask) \/ (f = "r" /\ p = 2 /\ rmask) THEN UNSEEN ELSE 24]] :
      gmask \in BOOLEAN, rmask \in BOOLEAN }

Snapshots(now) ==
    [mjd : {now}, lmst : LmstValues, current_filter : {None, "g", "u"},
     slewtime : SlewMaps, M5Depth : M5Maps]

NegInf == [neg_inf |-> TRUE, val |-> 0]
Finite(v) == [neg_inf |-> FALSE, val |-> v]

---------------------------------------------------------------------------
(* Pairs_survey_scripted *)

\* Pairs_survey_scripted._check_alts
Pairs_check_alts(observation, conditions) ==
    LET alt == approx_RaDec2AltAz(observation.RA, observation.dec, conditions.lmst)
    IN  (alt < max_alt) /\ (alt > min_alt)

\* Pairs_survey_scripted._check_mask
check_mask(observation, conditions) ==
    LET hpid == raDec2Hpid(observation.RA, observation.dec)
        skyval == conditions.M5Depth[observation.filter][hpid]
    IN  skyval # UNSEEN /\ skyval > 0

\* The while loop of _purge_queue: in_window is the value computed before the
\* loop, from the entry that was at the head when the purge started.
RECURSIVE purge_loop(_, _, _)
purge_loop(queue, in_window, conditions) ==
    IF Len(queue) = 0 THEN queue
    ELSE IF (queue[1].mjd < conditions.mjd) /\ ~in_window
         THEN purge_loop(Tail(queue), in_window, conditions)
    ELSE IF in_window /\ ~check_mask(queue[1], conditions)
         THEN purge_loop(Tail(queue), in_window, conditions)
    ELSE IF in_window /\ ~Pairs_check_alts(queue[1], conditions)
         THEN purge_loop(Tail(queue), in_window, conditions)
    ELSE queue

\* a purge that drops nothing
purge_queue_keep(queue, conditions) == queue

\* Pairs_survey_scripted._purge_queue
purge_queue(queue, conditions) ==
    IF Len(queue) > 0
    THEN purge_loop(queue, Abs(queue[1].mjd - conditions.mjd) < ttol, conditions)
    ELSE queue

\* Pairs_survey_scripted._check_observation
check_observation(observation, conditions) ==
    LET delta_t == observation.mjd - conditions.mjd
        obs_hp == raDec2Hpid(observation.RA, observation.dec)
        slew == conditions.slewtime[obs_hp]
        in_slew_window == slew <= max_slew_to_pair \/ delta_t < 0
        in_time_window == Abs(delta_t) < ttol
        infilt == IF conditions.current_filter = None THEN TRUE
                  ELSE conditions.current_filter \in filt_to_pair
        is_observable == check_mask(observation, conditions)
    IN  [valid |-> in_time_window /\ infilt /\ in_slew_window /\ is_observable,
         in_time_window |-> in_time_window,
         infilt |-> infilt,
         in_slew_window |-> in_slew_window,
         is_observable |-> is_observable]

\* The for loop shared by calc_reward_function and generate_observations:
\* the index of the entry the scan accepts, 0 when it accepts none.
\* a scan that does not stop at an entry outside its time window
RECURSIVE scan_queue_nobreak(_, _, _)
scan_queue_nobreak(queue, conditions, indx) ==
    IF indx > Len(queue) THEN 0
    ELSE IF check_observation(queue[indx], conditions).valid THEN indx
    ELSE scan_queue_nobreak(queue, conditions, indx + 1)

\* a scan that stops at the first entry that fails any check
RECURSIVE scan_queue_stop_any(_, _, _)
scan_queue_stop_any(queue, conditions, indx) ==
    IF indx > Len(queue) THEN 0
    ELSE IF check_observation(queue[indx], conditions).valid THEN indx
    ELSE 0

RECURSIVE scan_queue(_, _, _)
scan_queue(queue, conditions, indx) ==
    IF indx > Len(queue) THEN 0
    ELSE LET check == check_observation(queue[indx], conditions)
         IN  IF check.valid THEN indx
             ELSE IF ~check.in_time_window THEN 0
             ELSE scan_queue(queue, conditions, indx + 1)

\* a pop that takes the head whatever index the scan accepted
RemoveHead(s, i) == Tail(s)

\* a pop that moves the entries it skipped behind the rest
RemoveAtRotate(s, i) == SubSeq(s, i + 1, Len(s)) \o SubSeq(s, 1, i - 1)

\* list.pop(indx), the list that is left
RemoveAt(s, i) == SubSeq(s, 1, i - 1) \o SubSeq(s, i + 1, Len(s))

\* to_ignore of Pairs_survey_scripted.add_observation
Pairs_to_ignore(observation) ==
    \E k \in 1..Len(ignore_obs) : IsSubstr(ignore_obs[k], observation.note)

\* a copy that keeps the executed epoch
obs_to_queue_nogap(observation) == observation

\* obs_to_queue of Pairs_survey_scripted.add_observation
obs_to_queue(observation) == [observation EXCEPT !.mjd = @ + dt]

\* Pairs_survey_scripted.add_observation.  pair_count is the value the call
\* reads from the Pair_in_night feature for the pixels of the observation,
\* after the feature has seen the observation.
Pairs_add_observation(observation, pair_count) ==
    /\ LET to_ignore == Pairs_to_ignore(observation)
           queued == /\ ~to_ignore
                     /\ observation.filter \in filt_to_pair
                     /\ pair_count < 1
       IN  /\ observing_queue' =
                IF queued THEN Append(observing_queue, obs_to_queue(observation))
                ELSE observing_queue
           /\ last' = [op |-> "add_observation", queue |-> observing_queue,
                       observation |-> observation,
                       pair_count |-> pair_count, fed |-> ~to_ignore]
    /\ UNCHANGED <<clock, script_vars, cond, dd>>

\* Pairs_survey_scripted.calc_reward_function
Pairs_calc_reward_function(conditions) ==
    LET purged == purge_queue(observing_queue, conditions)
        indx == scan_queue(purged, conditions, 1)
    IN  /\ observing_queue' = purged
        /\ last' = [op |-> "calc_reward_function", queue |-> observing_queue,
                    conditions |-> conditions, purged |-> purged,
                    result |-> IF indx > 0 THEN Finite(reward_val) ELSE NegInf]
        /\ UNCHANGED <<clock, delivered, script_vars, cond, dd>>

\* Pairs_survey_scripted.generate_observations
Pairs_generate_observations(conditions) ==
    LET purged == purge_queue(observing_queue, conditions)
        indx == scan_queue(purged, conditions, 1)
        popped == [purged[indx] EXCEPT
                      !.note = <<"pair(">> \o note \o <<")">>,
                      !.filter = IF conditions.current_filter # None
                                 THEN conditions.current_filter ELSE @]
    IN  /\ observing_queue' = IF indx > 0 THEN RemoveAt(purged, indx) ELSE purged
        /\ last' = [op |-> "generate_observations", queue |-> observing_queue,
                    conditions |-> conditions, purged |-> purged,
                    result |-> IF indx > 0 THEN <<popped>> ELSE <<>>]
        /\ UNCHANGED <<clock, delivered, script_vars, cond, dd>>

\* the scheduling loop moves the clock (Conditions.mjd setter)
SetClock(value) ==
    /\ value # clock
    /\ clock' = value
    /\ last' = [op |-> "set_mjd"]
    /\ UNCHANGED <<observing_queue, delivered, script_vars, cond, dd>>

\* an attribute that holds None; a stored value v is Some(v)
Unset == <<>>
Some(v) == <<v>>

CondFilters == {"r"}

\* Conditions.__init__
ConditionsNew ==
    [mjd |-> Unset, alt |-> Unset, az |-> Unset, lmst |-> Unset, HA |-> Unset,
     skybrightness |-> [f \in CondFilters |-> Unset],
     FWHMeff |-> [f \in CondFilters |-> Unset],
     airmass |-> Unset, M5Depth |-> Unset, exptime |-> 30,
     bulk_cloud |-> Unset, slewtime |-> Unset]

\* no Deep_drilling_survey has been constructed
NoSurvey == [built |-> FALSE]

PairsInit ==
    /\ cond = ConditionsNew
    /\ dd = NoSurvey
    /\ observing_queue = <<>>
    /\ clock = 0
    /\ delivered = 0
    /\ last = [op |-> "init"]
    /\ has_script = FALSE
    /\ obs_wanted = <<>>
    /\ obs_log = <<>>
    /\ mjd_tol = 0

PairsNext ==
    \/ \E observation \in Observations, pair_count \in PairCounts :
           /\ Len(observing_queue) < MaxQueue
           /\ Pairs_add_observation(observation, pair_count)
           /\ UNCHANGED delivered
    \/ \E conditions \in Snapshots(clock) : Pairs_calc_reward_function(conditions)
    \/ \E conditions \in Snapshots(clock) : Pairs_generate_observations(conditions)
    \/ \E value \in 0..MaxMjd : SetClock(value)

PairsSpec == PairsInit /\ [][PairsNext]_vars

---------------------------------------------------------------------------
(* A night of the pairs survey: the scheduling loop reports the executed  *)
(* observations in the order they were taken.                             *)

MaxNightMjd == 2    \* in a night, executed observations carry an mjd in 0..MaxNightMjd
MaxNightQueue == 3  \* in a night, add_observation is not offered on a longer pair queue

NightObservations ==
    [mjd : 0..MaxNightMjd, RA : RAs, dec : Decs, filter : {"g", "u"}, note : {<<>>}]

NightSnapshots(now) ==
    { c \in Snapshots(now) : c.current_filter # "g" /\ c.M5Depth["r"][2] # UNSEEN }

\* add_observation with an executed observation no older than the one
\* reported before it
Night_add_observation(observation, pair_count) ==
    /\ Len(observing_queue) < MaxNightQueue
    /\ observation.mjd >= delivered
    /\ delivered' = observation.mjd
    /\ Pairs_add_observation(observation, pair_count)

NightNext ==
    \/ \E observation \in NightObservations, pair_count \in PairCounts :
           Night_add_observation(observation, pair_count)
    \/ \E conditions \in NightSnapshots(clock) : Pairs_calc_reward_function(conditions)
    \/ \E conditions \in NightSnapshots(clock) : Pairs_generate_observations(conditions)
    \/ \E value \in 0..MaxMjd : SetClock(value)

NightSpec == PairsInit /\ [][NightNext]_vars

---------------------------------------------------------------------------
(* The pairs survey under a clock that keeps advancing and a scheduler    *)
(* that keeps asking for the reward or for observations.                  *)

LiveObservations ==
    { o \in NightObservations : o.mjd <= MaxObsMjd /\ o.filter \in filt_to_pair }

LiveSnapshots(now) == { c \in NightSnapshots(now) : c.current_filter = None }

\* the clock stops once every entry that can be queued is past its window
LastMjd == MaxObsMjd + dt + ttol

\* the scheduling loop moves the clock one tick forward
Tick ==
    /\ clock < LastMjd
    /\ SetClock(clock + 1)

\* the scheduler asks the survey for its reward or for its observations
LiveCall ==
    \E conditions \in LiveSnapshots(clock) :
        \/ Pairs_calc_reward_function(conditions)
        \/ Pairs_generate_observations(conditions)

LiveNext ==
    \/ \E observation \in LiveObservations, pair_count \in PairCounts :
           /\ Len(observing_queue) < MaxQueue
           /\ Pairs_add_observation(observation, pair_count)
           /\ UNCHANGED delivered
    \/ LiveCall
    \/ Tick

LiveSpec == PairsInit /\ [][LiveNext]_vars /\ WF_vars(Tick) /\ WF_vars(LiveCall)

---------------------------------------------------------------------------
(* Scripted_survey *)

Scripted_reward == 1000000
Scripted_ignore_obs == <<"dummy">>

\* the result of a call that ended in an exception
Raised(exception) == [raised |-> exception]

\* the result of a call that returned a value
Returned(value) == [returned |-> value]

\* Python's None where an observation is expected
NoObservation == [none |-> TRUE]

ScriptNotes == { <<>>, <<"dummy">>, <<"x", "dummy">> }
ScriptPositions == { <<1, 1>>, <<1, 2>>, <<2, 1>> }
ScriptMjds == 1..2
ScriptTols == 1..2

\* the rows a script is made of
ScriptRows ==
    { [mjd |-> m, RA |-> pos[1], dec |-> pos[2], filter |-> f, note |-> <<>>] :
      m \in ScriptMjds, pos \in ScriptPositions, f \in filt_to_pair }

\* the executed observations reported to the scripted survey
ScriptObservations ==
    { [mjd |-> m, RA |-> pos[1], dec |-> pos[2], filter |-> f, note |-> n] :
      m \in 0..MaxObsMjd, pos \in ScriptPositions, f \in filt_to_pair, n \in ScriptNotes }

\* the telemetry the scripted survey reads: the time, and the altitude map of
\* its altaz feature (degrees, per pixel)
AltMaps == [Pixels -> {min_alt, 60}]
ScriptSnapshots == [mjd : 0..MaxMjd, alt : AltMaps]

\* `ignore_obs in observation['note']`: note is a one-element array, so the
\* test is whether that element equals ignore_obs
Scripted_ignored(observation) == observation.note = Scripted_ignore_obs

\* time_matches of Scripted_survey.add_observation
time_matches(observation) ==
    { i \in 1..Len(obs_wanted) :
        Abs(obs_wanted[i].mjd - observation.mjd) < mjd_tol /\ ~obs_log[i] }

\* the for loop of Scripted_survey.add_observation over time_matches, in
\* increasing index order: the log after the loop
\* a loop without the break: every matching entry is marked
RECURSIVE match_loop_nobreak(_, _, _)
match_loop_nobreak(observation, matches, i) ==
    IF i > Len(obs_wanted) THEN obs_log
    ELSE LET rest == match_loop_nobreak(observation, matches, i + 1)
         IN  IF /\ i \in matches
                /\ obs_wanted[i].RA = observation.RA
                /\ obs_wanted[i].dec = observation.dec
                /\ obs_wanted[i].filter = observation.filter
             THEN [rest EXCEPT ![i] = TRUE]
             ELSE rest

RECURSIVE match_loop(_, _, _)
match_loop(observation, matches, i) ==
    IF i > Len(obs_wanted) THEN obs_log
    ELSE IF /\ i \in matches
            /\ obs_wanted[i].RA = observation.RA
            /\ obs_wanted[i].dec = observation.dec
            /\ obs_wanted[i].filter = observation.filter
         THEN [obs_log EXCEPT ![i] = TRUE]
         ELSE match_loop(observation, matches, i + 1)

\* Scripted_survey.add_observation
Scripted_add_observation(observation) ==
    /\ IF Scripted_ignored(observation)
       THEN /\ UNCHANGED obs_log
            /\ last' = [op |-> "Scripted.add_observation", observation |-> observation,
                        log |-> obs_log, fed |-> FALSE, result |-> "ignored"]
       ELSE IF ~has_script
       THEN /\ UNCHANGED obs_log
            /\ last' = [op |-> "Scripted.add_observation", observation |-> observation,
                        log |-> obs_log, fed |-> TRUE, result |-> "AttributeError"]
       ELSE /\ obs_log' = match_loop(observation, time_matches(observation), 1)
            /\ last' = [op |-> "Scripted.add_observation", observation |-> observation,
                        log |-> obs_log, fed |-> TRUE, result |-> "done"]
    /\ UNCHANGED <<pairs_vars, has_script, obs_wanted, mjd_tol, cond, dd>>

\* Scripted_survey._slice2obs: an empty observation (mjd 0) filled from the row
slice2obs(obs_row) ==
    [mjd |-> 0, RA |-> obs_row.RA, dec |-> obs_row.dec,
     filter |-> obs_row.filter, note |-> obs_row.note]

\* no altitude check at all
Scripted_check_alts_all(indices, conditions) == indices

\* Scripted_survey._check_alts: the indices whose pixel is inside the band
Scripted_check_alts(indices, conditions) ==
    { i \in indices :
        LET alts == conditions.alt[raDec2Hpid(obs_wanted[i].RA, obs_wanted[i].dec)]
        IN  (alts < max_alt) /\ (alts > min_alt) }

\* the first element of an index array (np.where returns increasing indices)
First(indices) == CHOOSE i \in indices : \A j \in indices : i <= j

\* Scripted_survey._check_list
check_list(conditions) ==
    LET matches == { i \in 1..Len(obs_wanted) :
                       Abs(obs_wanted[i].mjd - conditions.mjd) < mjd_tol /\ ~obs_log[i] }
        in_alt == Scripted_check_alts(matches, conditions)
    IN  IF in_alt # {} THEN slice2obs(obs_wanted[First(in_alt)]) ELSE NoObservation

\* Scripted_survey.calc_reward_function: it calls self._check_list() without
\* the conditions argument that _check_list requires, which raises TypeError
\* before anything is assigned.
Scripted_calc_reward_function(conditions) ==
    /\ last' = [op |-> "Scripted.calc_reward_function", conditions |-> conditions,
                result |-> Raised("TypeError")]
    /\ UNCHANGED <<pairs_vars, script_vars, cond, dd>>

\* Scripted_survey.generate_observations
Scripted_generate_observations(conditions) ==
    /\ last' = [op |-> "Scripted.generate_observations", conditions |-> conditions,
                result |-> IF has_script THEN << check_list(conditions) >>
                           ELSE Raised("AttributeError")]
    /\ UNCHANGED <<pairs_vars, script_vars, cond, dd>>

\* Scripted_survey.set_script
set_script(script, tol) ==
    /\ has_script' = TRUE
    /\ mjd_tol' = tol
    /\ obs_wanted' = script
    /\ obs_log' = [i \in 1..Len(script) |-> FALSE]
    /\ last' = [op |-> "set_script"]
    /\ UNCHANGED <<pairs_vars, cond, dd>>

\* Scripted_survey.add_to_script
add_to_script(observation, tol) ==
    /\ has_script
    /\ Len(obs_wanted) < MaxScript
    /\ mjd_tol' = tol
    /\ obs_wanted' = obs_wanted \o <<observation>>
    /\ obs_log' = obs_log \o <<FALSE>>
    /\ last' = [op |-> "add_to_script"]
    /\ UNCHANGED <<pairs_vars, has_script, cond, dd>>

ScriptedInit == PairsInit

ScriptedNext ==
    \/ \E observation \in ScriptObservations : Scripted_add_observation(observation)
    \/ \E conditions \in ScriptSnapshots : Scripted_calc_reward_function(conditions)
    \/ \E conditions \in ScriptSnapshots : Scripted_generate_observations(conditions)
    \/ \E row \in ScriptRows, tol \in ScriptTols : set_script(<<row>>, tol)
    \/ \E tol \in ScriptTols : set_script(<<>>, tol)
    \/ \E row \in ScriptRows, tol \in ScriptTols : add_to_script(row, tol)

ScriptedSpec == ScriptedInit /\ [][ScriptedNext]_vars

---------------------------------------------------------------------------
(* Conditions *)

\* the grid: hp.nside2npix(nside) pixels, and the RA of each (degrees)
npix == Cardinality(Pixels)
grid_ra == [p \in 1..npix |-> 45 + 180 * (p - 1)]

\* hp.ud_grade(map, nside_out = self.nside): a coarser map is replicated into
\* its children, a finer one averaged over the children that hold data
ud_grade(map) ==
    IF Len(map) = npix THEN map
    ELSE IF Len(map) < npix
    THEN [p \in 1..npix |-> map[((p - 1) * Len(map)) \div npix + 1]]
    ELSE LET per == Len(map) \div npix
             kids(p) == { k \in ((p - 1) * per + 1)..(p * per) : map[k] # UNSEEN }
             RECURSIVE Sum(_)
             Sum(S) == IF S = {} THEN 0
                       ELSE LET k == CHOOSE k \in S : TRUE IN map[k] + Sum(S \ {k})
         IN  [p \in 1..npix |->
                IF kids(p) = {} THEN UNSEEN ELSE Sum(kids(p)) \div Cardinality(kids(p))]

\* the maps the telemetry feeds in, at the grid's resolution or at a coarser one
SkyInputs == { <<21, 21>>, <<21, UNSEEN>>, <<22>> }
FWHMInputs == { <<1, 1>>, <<2>>, <<1, 1, 3, 3>> }
CloudInputs == { <<0, 0>>, <<1>> }
SlewInputs == { <<5, 5>>, <<9>> }
AirmassInputs == { <<1, 1>>, <<2>> }
ExptimeValues == {15, 30}
CondMjds == {1, 2}
CondLmsts == {1, 13}

\* a dict argument: the filters it has a map for, Unset for the others
DictInputs(maps) == [CondFilters -> {Unset} \cup { Some(m) : m \in maps }]

\* _approx_RaDec2AltAz(self.ra, self.dec, lat, lon, mjd) over the grid, degrees
grid_altAz(mjd) ==
    [alt |-> [p \in 1..npix |-> (grid_ra[p] + 15 * mjd) % 90],
     az |-> [p \in 1..npix |-> (grid_ra[p] + 30 * mjd) % 360]]

\* Conditions.calc_HA, in degrees: lmst is in hours
calc_HA(lmst) ==
    [p \in 1..npix |->
        LET ha == 15 * lmst - grid_ra[p] IN IF ha < 0 THEN ha + 360 ELSE ha]

\* m5_flat_sed: deeper under a darker sky and a longer exposure, shallower
\* with a wider seeing disc and a larger airmass
m5_flat_sed(filtername, musky, FWHMeff, expTime, airmass_) ==
    24 + 2 * (musky - 21) - FWHMeff + expTime \div 15 - airmass_

unseen_map == [p \in 1..npix |-> UNSEEN]

\* a calc_M5Depth that computes a depth at every pixel, no-data or not
calc_M5Depth_nomask(c) ==
    LET filters == { f \in CondFilters : c.skybrightness[f] # Unset }
    IN  IF filters = {} THEN [M5Depth |-> [f \in CondFilters |-> Unset], raised |-> ""]
        ELSE LET f == CHOOSE f \in filters : TRUE
                 sky == c.skybrightness[f][1]
                 begun == [g \in CondFilters |-> IF g = f THEN Some(unseen_map) ELSE Unset]
             IN  IF c.FWHMeff[f] = Unset
                 THEN [M5Depth |-> begun, raised |-> "KeyError"]
                 ELSE IF \E p \in 1..npix : p > Len(c.FWHMeff[f][1])
                 THEN [M5Depth |-> begun, raised |-> "IndexError"]
                 ELSE IF c.airmass = Unset
                 THEN [M5Depth |-> begun, raised |-> "TypeError"]
                 ELSE [M5Depth |->
                          [g \in CondFilters |->
                             IF g = f
                             THEN Some([p \in 1..npix |->
                                     m5_flat_sed(f, sky[p], c.FWHMeff[f][1][p],
                                                 c.exptime, c.airmass[1][p])])
                             ELSE Unset],
                       raised |-> ""]

\* Conditions.calc_M5Depth for the one filter of the loop: the dict it leaves in
\* _M5Depth, and the exception it ends in ("" when it completes)
calc_M5Depth(c) ==
    LET filters == { f \in CondFilters : c.skybrightness[f] # Unset }
    IN  IF filters = {} THEN [M5Depth |-> [f \in CondFilters |-> Unset], raised |-> ""]
        ELSE LET f == CHOOSE f \in filters : TRUE
                 sky == c.skybrightness[f][1]
                 good == { p \in 1..npix : sky[p] # UNSEEN }
                 begun == [g \in CondFilters |-> IF g = f THEN Some(unseen_map) ELSE Unset]
             IN  IF c.FWHMeff[f] = Unset
                 THEN [M5Depth |-> begun, raised |-> "KeyError"]
                 ELSE IF \E p \in good : p > Len(c.FWHMeff[f][1])
                 THEN [M5Depth |-> begun, raised |-> "IndexError"]
                 ELSE IF c.airmass = Unset
                 THEN [M5Depth |-> begun, raised |-> "TypeError"]
                 ELSE [M5Depth |->
                          [g \in CondFilters |->
                             IF g = f
                             THEN Some([p \in 1..npix |->
                                     IF p \in good
                                     THEN m5_flat_sed(f, sky[p], c.FWHMeff[f][1][p],
                                                      c.exptime, c.airmass[1][p])
                                     ELSE UNSEEN])
                             ELSE Unset],
                       raised |-> ""]

\* a setter call, as recorded in last
Wrote(field) == [op |-> "set", field |-> field]

\* a property read, as recorded in last: what it returned (or raised) and
\* whether it ran the calc_ method
Read(field, result, computed) ==
    [op |-> "get", field |-> field, result |-> result, computed |-> computed]

CondFrame == UNCHANGED <<pairs_vars, script_vars, dd>>

\* Conditions.lmst setter
set_lmst(value) ==
    /\ cond' = [cond EXCEPT !.lmst = Some(value), !.HA = Unset]
    /\ last' = Wrote("lmst")
    /\ CondFrame

\* Conditions.HA
get_HA ==
    /\ IF cond.HA # Unset
       THEN /\ UNCHANGED cond
            /\ last' = Read("HA", Returned(cond.HA[1]), FALSE)
       ELSE IF cond.lmst = Unset
       THEN /\ UNCHANGED cond
            /\ last' = Read("HA", Raised("TypeError"), TRUE)
       ELSE /\ cond' = [cond EXCEPT !.HA = Some(calc_HA(cond.lmst[1]))]
            /\ last' = Read("HA", Returned(calc_HA(cond.lmst[1])), TRUE)
    /\ CondFrame

\* Conditions.mjd setter
set_mjd(value) ==
    /\ cond' = [cond EXCEPT !.mjd = Some(value), !.az = Unset, !.alt = Unset]
    /\ last' = Wrote("mjd")
    /\ CondFrame

\* Conditions.alt and Conditions.az: field is "alt" or "az"
get_altAz(field) ==
    /\ IF cond[field] # Unset
       THEN /\ UNCHANGED cond
            /\ last' = Read(field, Returned(cond[field][1]), FALSE)
       ELSE IF cond.mjd = Unset
       THEN /\ UNCHANGED cond
            /\ last' = Read(field, Raised("TypeError"), TRUE)
       ELSE LET altAz == grid_altAz(cond.mjd[1])
            IN  /\ cond' = [cond EXCEPT !.alt = Some(altAz.alt), !.az = Some(altAz.az)]
                /\ last' = Read(field, Returned(altAz[field]), TRUE)
    /\ CondFrame

\* Conditions.bulk_cloud setter
set_bulk_cloud(value) ==
    /\ cond' = [cond EXCEPT !.bulk_cloud = Some(ud_grade(value))]
    /\ last' = Wrote("bulk_cloud")
    /\ CondFrame

\* Conditions.slewtime setter
set_slewtime(value) ==
    /\ cond' = [cond EXCEPT !.slewtime = Some(ud_grade(value))]
    /\ last' = Wrote("slewtime")
    /\ CondFrame

\* an airmass setter that keeps the limiting-magnitude cache
set_airmass_keep(value) ==
    /\ cond' = [cond EXCEPT !.airmass = Some(ud_grade(value))]
    /\ last' = Wrote("airmass")
    /\ CondFrame

\* Conditions.airmass setter
set_airmass(value) ==
    /\ cond' = [cond EXCEPT !.airmass = Some(ud_grade(value)), !.M5Depth = Unset]
    /\ last' = Wrote("airmass")
    /\ CondFrame

\* Conditions.skybrightness setter
set_skybrightness(indict) ==
    /\ cond' = [cond EXCEPT
                   !.skybrightness = [f \in CondFilters |->
                        IF indict[f] # Unset THEN Some(ud_grade(indict[f][1])) ELSE @[f]],
                   !.M5Depth = Unset]
    /\ last' = Wrote("skybrightness")
    /\ CondFrame

\* Conditions.FWHMeff setter: the maps are stored as they come
set_FWHMeff(indict) ==
    /\ cond' = [cond EXCEPT
                   !.FWHMeff = [f \in CondFilters |->
                        IF indict[f] # Unset THEN indict[f] ELSE @[f]],
                   !.M5Depth = Unset]
    /\ last' = Wrote("FWHMeff")
    /\ CondFrame

\* conditions.exptime = value: a plain attribute
set_exptime(value) ==
    /\ cond' = [cond EXCEPT !.exptime = value]
    /\ last' = Wrote("exptime")
    /\ CondFrame

\* Conditions.M5Depth
get_M5Depth ==
    /\ IF cond.M5Depth # Unset
       THEN /\ UNCHANGED cond
            /\ last' = Read("M5Depth", Returned(cond.M5Depth[1]), FALSE)
       ELSE LET calc == calc_M5Depth(cond)
            IN  /\ cond' = [cond EXCEPT !.M5Depth = Some(calc.M5Depth)]
                /\ last' = Read("M5Depth",
                                IF calc.raised = "" THEN Returned(calc.M5Depth)
                                ELSE Raised(calc.raised), TRUE)
    /\ CondFrame

CondInit == PairsInit

CondNext ==
    \/ \E value \in CondLmsts : set_lmst(value)
    \/ get_HA
    \/ \E value \in CondMjds : set_mjd(value)
    \/ \E field \in {"alt", "az"} : get_altAz(field)
    \/ \E value \in CloudInputs : set_bulk_cloud(value)
    \/ \E value \in SlewInputs : set_slewtime(value)
    \/ \E value \in AirmassInputs : set_airmass(value)
    \/ \E indict \in DictInputs(SkyInputs) : set_skybrightness(indict)
    \/ \E indict \in DictInputs(FWHMInputs) : set_FWHMeff(indict)
    \/ \E value \in ExptimeValues : set_exptime(value)
    \/ get_M5Depth

CondSpec == CondInit /\ [][CondNext]_vars

---------------------------------------------------------------------------
(* Deep_drilling_survey *)

DD_RA == 1               \* the field of a survey configured with a filter string
visit_time == 1          \* exptime + readtime * nexp of one visit, in ticks
filter_change_time == 2  \* in ticks
flush_pad == 3           \* in ticks

DDFilters == {"g", "i", "r", "z"}

\* the order of the filter names as strings, which np.argsort sorts by
FilterRank(filtername) ==
    CASE filtername = "g" -> 1
      [] filtername = "i" -> 2
      [] filtername = "r" -> 3
      [] filtername = "z" -> 4

\* empty_observation() with the fields the constructor fills in
make_obs(filtername, ra) == [filter |-> filtername, RA |-> ra, flush_by_mjd |-> 0]

\* the sequence argument: a str of filter names, or a list of observations
Str(chars) == [str |-> chars]
List(observations) == [list |-> observations]

DDSequences ==
    { Str(<<>>), Str(<<"r">>), Str(<<"r", "g">>), Str(<<"r", "g", "i", "z">>),
      List(<<make_obs("r", 1), make_obs("g", 1), make_obs("r", 2), make_obs("i", 2)>>) }

NvisLists ==
    UNION { [1..n -> 0..MaxVis] : n \in 0..2 } \cup { <<1, 1, 1, 1>> }

RewardValues == { Unset, Some(0), Some(100) }

\* for j in range(num): ... self.observations.append(obs)
RECURSIVE Repeat(_, _)
Repeat(obs, num) == IF num = 0 THEN <<>> ELSE <<obs>> \o Repeat(obs, num - 1)

\* for num, filtername in zip(nvis, sequence): zip stops at the shorter one
RECURSIVE zip_expand(_, _, _)
zip_expand(sequence, nvis, k) ==
    IF k > Len(sequence) \/ k > Len(nvis) THEN <<>>
    ELSE Repeat(make_obs(sequence[k], DD_RA), nvis[k]) \o zip_expand(sequence, nvis, k + 1)

\* np.argsort(self.observations['filter']): an order that sorts by filter
\* name; the default sort is not stable, entries of one filter may come out
\* in any order
argsort(observations) ==
    { order \in Permutations(1..Len(observations)) :
        \A i, j \in 1..Len(observations) :
            i < j => FilterRank(observations[order[i]].filter)
                        <= FilterRank(observations[order[j]].filter) }

\* self.approx_time
approx_time(observations) ==
    Len(observations) * visit_time
    + filter_change_time
        * Cardinality({ observations[i].filter : i \in 1..Len(observations) })

\* Deep_drilling_survey.__init__; np.concatenate raises on an empty list
DD_init(sequence, nvis, reward_value) ==
    /\ dd = NoSurvey
    /\ LET observations == IF "str" \in DOMAIN sequence
                           THEN zip_expand(sequence.str, nvis, 1)
                           ELSE sequence.list
           call == [op |-> "DD.__init__", sequence |-> sequence, nvis |-> nvis]
       IN  IF observations = <<>>
           THEN /\ dd' = dd
                /\ last' = call @@ [result |-> Raised("ValueError")]
           ELSE \E order \in argsort(observations) :
                /\ dd' = [built |-> TRUE,
                          observations |-> [i \in 1..Len(observations) |->
                                               observations[order[i]]],
                          reward_value |-> reward_value,
                          approx_time |-> approx_time(observations)]
                /\ last' = call @@ [result |-> Returned("survey")]
    /\ UNCHANGED <<pairs_vars, script_vars, cond>>

\* the telemetry the deep drilling survey reads, and the verdicts of its
\* feasibility basis functions on it
NBasis == 2
MountedSets == { {}, {"r", "g"}, {"i"}, {"g", "i", "r", "z"} }
DDSnapshots ==
    [mjd : {0, 1}, mounted_filters : MountedSets, current_filter : {"r", "g", "u"},
     feasibility : [1..NBasis -> BOOLEAN]]

\* the observation counters of the survey: N_obs_survey() and
\* N_obs_survey(note = survey_name); the second counts a subset of the first
Counts == { c \in (0..MaxCount) \X (0..MaxCount) : c[2] <= c[1] }

\* BaseSurvey._check_feasibility: every basis function says feasible
check_feasibility(conditions) ==
    \A i \in DOMAIN conditions.feasibility : conditions.feasibility[i]

\* a quotient of two counters
Ratio(num, den) == [num |-> num, den |-> den]

\* a ratio over the survey's own count as it is
fairness_ratio_plain(Ntot, N_survey) == Ratio(Ntot, N_survey)

\* Ntot.feature / (N_survey.feature + 1)
fairness_ratio(Ntot, N_survey) == Ratio(Ntot, N_survey + 1)

\* Deep_drilling_survey.calc_reward_function
DD_calc_reward_function(conditions, Ntot, N_survey) ==
    /\ dd # NoSurvey
    /\ last' = [op |-> "DD.calc_reward_function", conditions |-> conditions,
                Ntot |-> Ntot, N_survey |-> N_survey,
                result |-> IF check_feasibility(conditions)
                           THEN IF dd.reward_value # Unset
                                THEN Finite(dd.reward_value[1])
                                ELSE fairness_ratio(Ntot, N_survey)
                           ELSE NegInf]
    /\ UNCHANGED <<pairs_vars, script_vars, cond, dd>>

\* a mask that keeps every entry
mounted_mask_all(result, mounted_filters) == result

\* result[np.isin(result['filter'], conditions.mounted_filters)]
mounted_mask(result, mounted_filters) ==
    LET mounted(obs) == obs.filter \in mounted_filters
    IN  SelectSeq(result, mounted)

\* result[ind1.tolist() + ind2.tolist()]
loaded_first(result, current_filter) ==
    LET loaded(obs) == obs.filter = current_filter
        other(obs) == obs.filter # current_filter
    IN  SelectSeq(result, loaded) \o SelectSeq(result, other)

\* a generation that stamps the stored batch itself
DD_generate_observations_rough_inplace(conditions) ==
    /\ dd # NoSurvey
    /\ LET flush_by_mjd == conditions.mjd + dd.approx_time + flush_pad
           stamped == [i \in 1..Len(dd.observations) |->
                          [dd.observations[i] EXCEPT !.flush_by_mjd = flush_by_mjd]]
       IN  /\ dd' = IF check_feasibility(conditions)
                    THEN [dd EXCEPT !.observations = stamped] ELSE dd
           /\ last' = [op |-> "DD.generate_observations_rough", conditions |-> conditions,
                       batch |-> dd.observations,
                       result |-> IF check_feasibility(conditions)
                                  THEN loaded_first(
                                           mounted_mask(stamped, conditions.mounted_filters),
                                           conditions.current_filter)
                                  ELSE <<>>]
    /\ UNCHANGED <<pairs_vars, script_vars, cond>>

\* Deep_drilling_survey.generate_observations_rough
DD_generate_observations_rough(conditions) ==
    /\ dd # NoSurvey
    /\ LET flush_by_mjd == conditions.mjd + dd.approx_time + flush_pad
           stamped == [i \in 1..Len(dd.observations) |->
                          [dd.observations[i] EXCEPT !.flush_by_mjd = flush_by_mjd]]
       IN  last' = [op |-> "DD.generate_observations_rough", conditions |-> conditions,
                    batch |-> dd.observations,
                    result |-> IF check_feasibility(conditions)
                               THEN loaded_first(
                                        mounted_mask(stamped, conditions.mounted_filters),
                                        conditions.current_filter)
                               ELSE <<>>]
    /\ UNCHANGED <<pairs_vars, script_vars, cond, dd>>

DDInit == PairsInit

DDNext ==
    \/ \E sequence \in DDSequences, nvis \in NvisLists, reward_value \in RewardValues :
           DD_init(sequence, nvis, reward_value)
    \/ \E conditions \in DDSnapshots, counts \in Counts :
           DD_calc_reward_function(conditions, counts[1], counts[2])
    \/ \E conditions \in DDSnapshots : DD_generate_observations_rough(conditions)

DDSpec == DDInit /\ [][DDNext]_vars

---------------------------------------------------------------------------
(* Vocabulary of the claims about the pair queue, stated on an entry and the
   telemetry of the call, independently of the scan that the code runs *)

PairsCall == last.op \in {"calc_reward_function", "generate_observations"}

InOwnWindow(entry, conditions) == Abs(entry.mjd - conditions.mjd) < ttol

SkyMasked(entry, conditions) ==
    conditions.M5Depth[entry.filter][raDec2Hpid(entry.RA, entry.dec)] = UNSEEN

InAltBand(entry, conditions) ==
    LET alt == approx_RaDec2AltAz(entry.RA, entry.dec, conditions.lmst)
    IN  min_alt < alt /\ alt < max_alt

DropPast(entry, conditions) ==
    entry.mjd < conditions.mjd /\ ~InOwnWindow(entry, conditions)

DropMasked(entry, conditions) ==
    InOwnWindow(entry, conditions) /\ SkyMasked(entry, conditions)

DropAlt(entry, conditions) ==
    InOwnWindow(entry, conditions) /\ ~InAltBand(entry, conditions)

\* how many entries the purge of the last call took off the head
NPurged == Len(last.queue) - Len(last.purged)

\* the entries the purge looked at: the removed ones and the head that stopped it
Examined == 1..(IF NPurged < Len(last.queue) THEN NPurged + 1 ELSE NPurged)

\* C1: every entry the purge examines is removed when it is past and outside
\* its own window, removed when it is in its window and sky-masked, and kept
\* when it is in its window, unmasked and inside the altitude band.
C1_PurgeByOwnWindow ==
    PairsCall =>
        \A i \in Examined :
            LET entry == last.queue[i]
                c == last.conditions
            IN  /\ DropPast(entry, c) => i <= NPurged
                /\ DropMasked(entry, c) => i <= NPurged
                /\ (InOwnWindow(entry, c) /\ ~SkyMasked(entry, c) /\ InAltBand(entry, c))
                       => i > NPurged

\* C2: the purge removes an entry only if one of the three drop conditions
\* holds for that entry with its own window; an entry whose window has not
\* opened yet is never removed.
C2_PurgeOnlyStale ==
    PairsCall =>
        \A i \in 1..NPurged :
            LET entry == last.queue[i]
                c == last.conditions
            IN  DropPast(entry, c) \/ DropMasked(entry, c) \/ DropAlt(entry, c)

\* the executed observation of the last add_observation asks for a pair
WantsPair ==
    /\ ~IsSubstr(<<"ack">>, last.observation.note)
    /\ last.observation.filter \in filt_to_pair
    /\ last.pair_count < 1

\* C3: a non-ignored observation in a pair filter with pairing counter < 1
\* appends exactly one entry at the tail, a copy of the observation with
\* target epoch = executed epoch + dt; with a counter >= 1 or a filter outside
\* the pair set the queue is left as it was.
C3_PairAppended ==
    last.op = "add_observation" =>
        IF WantsPair
        THEN /\ Len(observing_queue) = Len(last.queue) + 1
             /\ SubSeq(observing_queue, 1, Len(last.queue)) = last.queue
             /\ LET new == observing_queue[Len(observing_queue)]
                    o == last.observation
                IN  /\ new.mjd = o.mjd + dt
                    /\ new.RA = o.RA /\ new.dec = o.dec
                    /\ new.filter = o.filter /\ new.note = o.note
        ELSE observing_queue = last.queue

C3_Witness ==
    /\ last.op = "add_observation"
    /\ WantsPair
    /\ Len(last.queue) >= 1
    /\ Len(observing_queue) = Len(last.queue) + 1

\* the checks of the pairs reward and generation, on one entry
SlewOrDue(entry, conditions) ==
    \/ conditions.slewtime[raDec2Hpid(entry.RA, entry.dec)] <= max_slew_to_pair
    \/ entry.mjd < conditions.mjd

FilterCompatible(conditions) ==
    conditions.current_filter = None \/ conditions.current_filter \in filt_to_pair

PassesAll(entry, conditions) ==
    /\ InOwnWindow(entry, conditions)
    /\ SlewOrDue(entry, conditions)
    /\ FilterCompatible(conditions)
    /\ ~SkyMasked(entry, conditions)

\* the scan gets as far as entry i: no entry before it is outside its window
Reached(queue, conditions, i) ==
    \A j \in 1..(i - 1) : InOwnWindow(queue[j], conditions)

Passing(queue, conditions) ==
    { i \in 1..Len(queue) : PassesAll(queue[i], conditions) }

ReachedPassing(queue, conditions) ==
    { i \in Passing(queue, conditions) : Reached(queue, conditions, i) }

Min(S) == CHOOSE x \in S : \A y \in S : x <= y

\* what generation hands out for a queue entry
Emitted(entry, conditions) ==
    [mjd |-> entry.mjd, RA |-> entry.RA, dec |-> entry.dec,
     filter |-> IF conditions.current_filter = None THEN entry.filter
                ELSE conditions.current_filter,
     note |-> <<"pair(", "scripted", ")">>]

\* the outcome of a generation that emits entry i of the purged queue
GeneratedAt(i) ==
    /\ last.result = << Emitted(last.purged[i], last.conditions) >>
    /\ Len(observing_queue) = Len(last.purged) - 1
    /\ \A j \in 1..Len(observing_queue) :
           observing_queue[j] = last.purged[IF j < i THEN j ELSE j + 1]

GeneratedNone ==
    /\ last.result = <<>>
    /\ observing_queue = last.purged

\* C4 as stated: generation emits the first entry, in list order after the
\* purge, that passes all checks, whatever precedes it.
C4_FirstPassingEmitted ==
    last.op = "generate_observations" =>
        LET pass == Passing(last.purged, last.conditions)
        IN  IF pass # {} THEN GeneratedAt(Min(pass)) ELSE GeneratedNone

\* C4 amended: generation emits the first entry that passes all checks among
\* those the scan reaches (no entry before it is outside its time window),
\* removes exactly that entry, overrides its filter by the loaded one and tags
\* it as a pair; otherwise it returns nothing and removes nothing.
C4_FirstReachedPassingEmitted ==
    last.op = "generate_observations" =>
        LET pass == ReachedPassing(last.purged, last.conditions)
        IN  IF pass # {} THEN GeneratedAt(Min(pass)) ELSE GeneratedNone

C4_Witness ==
    /\ last.op = "generate_observations"
    /\ Len(last.purged) = 2
    /\ ReachedPassing(last.purged, last.conditions) = {2}
    /\ last.conditions.current_filter = "g"
    /\ last.purged[2].filter = "r"
    /\ Len(last.result) = 1

\* C5: the pairs reward is the pair reward value exactly when, after the
\* purge, the scan reaches an entry that passes all checks, and -infinity
\* otherwise; the call removes nothing but what the purge removed.
C5_RewardIffReachedPassing ==
    last.op = "calc_reward_function" =>
        /\ last.result =
              IF ReachedPassing(last.purged, last.conditions) # {}
              THEN Finite(reward_val) ELSE NegInf
        /\ observing_queue = last.purged
        /\ \E k \in 0..Len(last.queue) :
               last.purged = SubSeq(last.queue, k + 1, Len(last.queue))

C5_Witness ==
    /\ last.op = "calc_reward_function"
    /\ Len(last.purged) = 2
    /\ ReachedPassing(last.purged, last.conditions) = {2}
    /\ last.result = Finite(reward_val)

---------------------------------------------------------------------------
(* Vocabulary of the claims about the scripted survey *)

SamePlaceAndFilter(row, observation) ==
    /\ row.RA = observation.RA
    /\ row.dec = observation.dec
    /\ row.filter = observation.filter

WithinTol(row, t) == Abs(row.mjd - t) < mjd_tol

\* the wanted entries the executed observation of the last call could match:
\* pending before the call, within tolerance, same position and filter
Matchable ==
    { i \in 1..Len(obs_wanted) :
        /\ ~last.log[i]
        /\ WithinTol(obs_wanted[i], last.observation.mjd)
        /\ SamePlaceAndFilter(obs_wanted[i], last.observation) }

NewlyMarked == { i \in 1..Len(obs_wanted) : obs_log[i] # last.log[i] }

\* C6: a non-ignored executed observation that matches a pending entry in
\* position, filter and epoch marks exactly one entry, the first such pending
\* entry in list order; no call marks more than one entry, unmarks one, or
\* marks an entry that was already marked.
C6_FirstPendingMatched ==
    last.op = "Scripted.add_observation" =>
        /\ Len(obs_log) = Len(last.log)
        /\ Cardinality(NewlyMarked) <= 1
        /\ \A i \in NewlyMarked : ~last.log[i] /\ obs_log[i]
        /\ (has_script /\ ~IsSubstr(Scripted_ignore_obs, last.observation.note))
              => NewlyMarked = (IF Matchable = {} THEN {} ELSE {Min(Matchable)})

\* the same observation had marked entry 1 and now marks entry 2
C6_Witness ==
    /\ last.op = "Scripted.add_observation"
    /\ Len(obs_wanted) = 2
    /\ last.log = <<TRUE, FALSE>>
    /\ obs_log = <<TRUE, TRUE>>
    /\ SamePlaceAndFilter(obs_wanted[1], last.observation)
    /\ WithinTol(obs_wanted[1], last.observation.mjd)

\* the wanted entries that are selectable at the time of the last call
Selectable ==
    { i \in 1..Len(obs_wanted) :
        /\ ~obs_log[i]
        /\ WithinTol(obs_wanted[i], last.conditions.mjd)
        /\ LET alt == last.conditions.alt[raDec2Hpid(obs_wanted[i].RA, obs_wanted[i].dec)]
           IN  min_alt < alt /\ alt < max_alt }

IsObservationOf(observation, row) ==
    /\ observation # NoObservation
    /\ SamePlaceAndFilter(row, observation)
    /\ observation.note = row.note

ScriptedCall ==
    /\ last.op \in {"Scripted.calc_reward_function", "Scripted.generate_observations"}
    /\ has_script

\* C8: once the current time is outside an entry's tolerance window, a reward
\* or generation call at that time leaves no such entry in the wanted list,
\* and selection does not return it.
C8_StaleEntryDropped ==
    ScriptedCall =>
        /\ \A i \in 1..Len(obs_wanted) : WithinTol(obs_wanted[i], last.conditions.mjd)
        /\ last.op = "Scripted.generate_observations" =>
              \/ last.result[1] = NoObservation
              \/ \E i \in 1..Len(obs_wanted) :
                     /\ WithinTol(obs_wanted[i], last.conditions.mjd)
                     /\ IsObservationOf(last.result[1], obs_wanted[i])

\* C9: the scripted reward is the configured reward value when selection
\* finds an observation ready to go and -infinity otherwise.
C9_ScriptedReward ==
    (last.op = "Scripted.calc_reward_function" /\ has_script) =>
        last.result = IF Selectable # {} THEN Finite(Scripted_reward) ELSE NegInf

---------------------------------------------------------------------------
(* Vocabulary of the claims about Conditions *)

\* the raw fields each derived field is computed from, as the claim lists them
Dependencies(field) ==
    CASE field = "HA" -> {"lmst"}
      [] field \in {"alt", "az"} -> {"mjd"}
      [] field = "M5Depth" -> {"skybrightness", "FWHMeff", "airmass"}

DerivedFields == {"HA", "alt", "az", "M5Depth"}

\* what a fresh computation from the raw fields of c gives for a derived field
Fresh(c, field) ==
    CASE field = "HA" -> calc_HA(c.lmst[1])
      [] field = "alt" -> grid_altAz(c.mjd[1]).alt
      [] field = "az" -> grid_altAz(c.mjd[1]).az
      [] field = "M5Depth" -> calc_M5Depth(c).M5Depth

\* the raw fields of c are there for a computation of the derived field
Computable(c, field) ==
    CASE field = "HA" -> c.lmst # Unset
      [] field \in {"alt", "az"} -> c.mjd # Unset
      [] field = "M5Depth" -> calc_M5Depth(c).raised = ""

ReadOk(l, field) ==
    /\ l.op = "get"
    /\ l.field = field
    /\ "returned" \in DOMAIN l.result

\* a setter leaves the caches that depend on its field empty
C10_SetterClears ==
    \A field \in DerivedFields :
        (last.op = "set" /\ last.field \in Dependencies(field)) => cond[field] = Unset

\* a read right after a write of a dependency is computed from the raw
\* fields as they are now
C10_ReadAfterWrite ==
    \A field \in DerivedFields :
        (/\ last.op = "set" /\ last.field \in Dependencies(field)
         /\ last'.op = "get" /\ last'.field = field
         /\ Computable(cond', field))
            => /\ last'.computed
               /\ last'.result = Returned(Fresh(cond', field))
               /\ cond'[field] = Some(Fresh(cond', field))

\* a read right after a read that returned returns the same value, from the cache
C10_ReadAgain ==
    \A field \in DerivedFields :
        (ReadOk(last, field) /\ last'.op = "get" /\ last'.field = field)
            => /\ last'.result = last.result
               /\ ~last'.computed
               /\ cond' = cond

\* C10: a write of a raw field clears the caches of the derived fields that
\* depend on it without computing them, the next read is computed from the
\* current raw values, and a second read with no write in between returns the
\* identical cached value without a new computation.
C10_CacheInvalidationAndStability ==
    /\ []C10_SetterClears
    /\ [][C10_ReadAfterWrite /\ C10_ReadAgain]_vars

\* a limiting-magnitude map computed after a write was read again from the cache
C10_Witness ==
    /\ ReadOk(last, "M5Depth")
    /\ ~last.computed
    /\ last.result.returned["r"] # Unset
    /\ \E p \in 1..npix : last.result.returned["r"][1][p] # UNSEEN

\* the maps a Conditions object stores per pixel, by setter
StoredMaps(c) ==
    { c[field][1] : field \in { g \in {"bulk_cloud", "slewtime", "airmass"} : c[g] # Unset } }
    \cup { c.skybrightness[f][1] : f \in { g \in CondFilters : c.skybrightness[g] # Unset } }
    \cup { c.FWHMeff[f][1] : f \in { g \in CondFilters : c.FWHMeff[g] # Unset } }

\* C11: a write to the time field (mjd) leaves the cached hour angle empty, as
\* well as the cached altitude and azimuth, so that the next read of the hour
\* angle is a new computation.
C11_MjdClearsHA ==
    last = Wrote("mjd") =>
        /\ cond.HA = Unset
        /\ cond.alt = Unset
        /\ cond.az = Unset

\* C12: every per-pixel raw field stored through a setter (cloud, slew time,
\* airmass, each sky-brightness map, each seeing map) has the pixel count of
\* the grid when read back, whatever the resolution it was supplied at.
C12_StoredAtGridResolution ==
    \A map \in StoredMaps(cond) : Len(map) = npix

\* C13: in a limiting-magnitude dict that a read of M5Depth has computed, for
\* the filter with a sky-brightness map and for each pixel, the value is the
\* no-data mask iff the sky brightness there is no-data, and otherwise the
\* value computed from the sky brightness, seeing, exposure time and airmass
\* at that pixel.
C13_MaskedIffNoData ==
    (ReadOk(last, "M5Depth") /\ last.computed) =>
        \A f \in CondFilters :
            cond.skybrightness[f] # Unset =>
                /\ last.result.returned[f] # Unset
                /\ \A p \in 1..npix :
                      LET sky == cond.skybrightness[f][1][p]
                          m5 == last.result.returned[f][1][p]
                      IN  /\ (m5 = UNSEEN) <=> (sky = UNSEEN)
                          /\ sky # UNSEEN =>
                                m5 = m5_flat_sed(f, sky, cond.FWHMeff[f][1][p],
                                                 cond.exptime, cond.airmass[1][p])

\* a limiting-magnitude map was read that is masked at one pixel and numeric
\* at another
C13_Witness ==
    /\ ReadOk(last, "M5Depth")
    /\ last.computed
    /\ cond.skybrightness["r"] = Some(<<21, UNSEEN>>)
    /\ last.result.returned["r"][1][1] # UNSEEN
    /\ last.result.returned["r"][1][2] = UNSEEN

\* C18: the purge removes exactly a prefix of the queue; on return the queue
\* is empty or its head satisfies none of the three drop conditions at the
\* time of the call, and the entries behind the head are the entries that
\* were behind it before, unmodified and in the same order.
C18_PurgeStopsAtSurvivor ==
    PairsCall =>
        /\ NPurged \in 0..Len(last.queue)
        /\ last.purged = SubSeq(last.queue, NPurged + 1, Len(last.queue))
        /\ last.purged # <<>> =>
              LET head == last.purged[1]
                  c == last.conditions
              IN  ~DropPast(head, c) /\ ~DropMasked(head, c) /\ ~DropAlt(head, c)

\* the reward or generation call of the pairs survey found an entry
PairsPositive ==
    IF last.op = "calc_reward_function" THEN last.result = Finite(reward_val)
    ELSE last.result # <<>>

\* the entries of the purged queue that are outside their time window
OutOfWindow == { k \in 1..Len(last.purged) : ~InOwnWindow(last.purged[k], last.conditions) }

\* C17: add_observation with an executed observation whose note contains the
\* ignore tag of the survey (one of the tags, for the pairs survey) marks no
\* wanted entry, appends no queue entry and feeds no feature.
C17_IgnoredChangesNothing ==
    /\ (last.op = "Scripted.add_observation" /\ has_script
            /\ IsSubstr(Scripted_ignore_obs, last.observation.note)) =>
           /\ obs_log = last.log
           /\ ~last.fed
    /\ (last.op = "add_observation"
            /\ \E k \in 1..Len(ignore_obs) : IsSubstr(ignore_obs[k], last.observation.note)) =>
           /\ observing_queue = last.queue
           /\ ~last.fed

\* C19: in the reward and generation scans of the pairs survey, an entry
\* outside its time window with no passing entry before it ends the call with
\* nothing found, an emitted entry lies before every entry outside its time
\* window, and an entry that passes all checks with only in-window entries
\* before it (failing other checks or not) is found.
C19_TimeWindowStopsScan ==
    PairsCall =>
        LET q == last.purged
            c == last.conditions
        IN  /\ \A k \in OutOfWindow :
                   (\A i \in 1..(k - 1) : ~PassesAll(q[i], c)) => ~PairsPositive
            /\ (last.op = "generate_observations" /\ last.result # <<>>) =>
                   \E i \in 1..Len(q) :
                       /\ GeneratedAt(i)
                       /\ \A k \in OutOfWindow : i < k
            /\ \A i \in 1..Len(q) :
                   (PassesAll(q[i], c) /\ \A j \in 1..(i - 1) : InOwnWindow(q[j], c))
                       => PairsPositive

\* a reward call stopped at a head that is not yet due, with a second entry
\* that passes every check
C19_Witness ==
    /\ last.op = "calc_reward_function"
    /\ Len(last.purged) = 2
    /\ OutOfWindow = {1}
    /\ PassesAll(last.purged[2], last.conditions)
    /\ last.result = NegInf

\* a generation call went past an in-window head that fails the slew check
\* and emitted the second entry
C19_WitnessSkip ==
    /\ last.op = "generate_observations"
    /\ Len(last.purged) = 2
    /\ OutOfWindow = {}
    /\ ~SlewOrDue(last.purged[1], last.conditions)
    /\ GeneratedAt(2)

---------------------------------------------------------------------------
(* Vocabulary of the claims about the deep drilling survey *)

DDGenerated ==
    /\ last.op = "DD.generate_observations_rough"
    /\ \A i \in DOMAIN last.conditions.feasibility : last.conditions.feasibility[i]

\* an entry as generation hands it out: flush_by_mjd aside, the stored entry
Unstamped(obs) == [obs EXCEPT !.flush_by_mjd = 0]

\* how often an entry occurs in a sequence
Count(seq, obs) == Cardinality({ i \in 1..Len(seq) : seq[i] = obs })

\* the entries of a sequence, without the expiry stamp, whose filter
\* is (loaded = TRUE) or is not (loaded = FALSE) the loaded one
Class(seq, loaded) ==
    LET in_class(obs) == (obs.filter = last.conditions.current_filter) = loaded
    IN  SelectSeq([i \in 1..Len(seq) |-> Unstamped(seq[i])], in_class)

\* the stored entries whose filter is mounted
MountedBatch ==
    LET mounted(obs) == obs.filter \in last.conditions.mounted_filters
    IN  SelectSeq(dd.observations, mounted)

\* C14: a feasible generation returns only entries whose filter is mounted,
\* and every entry of the loaded filter comes before every entry of another
\* filter.
C14_MountedOnlyLoadedFirst ==
    DDGenerated =>
        /\ \A i \in 1..Len(last.result) :
               last.result[i].filter \in last.conditions.mounted_filters
        /\ \A i, j \in 1..Len(last.result) :
               (/\ last.result[j].filter = last.conditions.current_filter
                /\ last.result[i].filter # last.conditions.current_filter) => j < i

\* batch of r, g, i and z entries, r and g mounted, r loaded: r entries, then
\* g entries, nothing else
C14_Witness ==
    /\ DDGenerated
    /\ { dd.observations[i].filter : i \in 1..Len(dd.observations) } = {"r", "g", "i", "z"}
    /\ last.conditions.mounted_filters = {"r", "g"}
    /\ last.conditions.current_filter = "r"
    /\ Len(last.result) = 2
    /\ last.result[1].filter = "r"
    /\ last.result[2].filter = "g"

\* C15: the deep drilling reward is -infinity iff some feasibility predicate
\* fails; when feasible it is the configured reward_value if there is one,
\* and otherwise the ratio Ntot / (N_survey + 1), whose divisor is not zero.
C15_RewardOrFairnessRatio ==
    last.op = "DD.calc_reward_function" =>
        LET infeasible == \E i \in DOMAIN last.conditions.feasibility :
                              ~last.conditions.feasibility[i]
        IN  /\ (last.result = NegInf) <=> infeasible
            /\ (~infeasible /\ dd.reward_value # Unset) =>
                   last.result = Finite(dd.reward_value[1])
            /\ (~infeasible /\ dd.reward_value = Unset) =>
                   /\ last.result = Ratio(last.Ntot, last.N_survey + 1)
                   /\ last.result.den # 0

\* a feasible reward of a survey without a configured value, with no
\* observation of the survey counted yet
C15_Witness ==
    /\ last.op = "DD.calc_reward_function"
    /\ dd.reward_value = Unset
    /\ last.N_survey = 0
    /\ last.Ntot = MaxCount
    /\ last.result = Ratio(MaxCount, 1)

\* C16: constructing a survey from a filter string and a visit-count list of
\* different lengths ends in an error and produces no survey object.
C16_MismatchRejected ==
    (/\ last.op = "DD.__init__"
     /\ "str" \in DOMAIN last.sequence
     /\ Len(last.sequence.str) # Len(last.nvis)) =>
        /\ "raised" \in DOMAIN last.result
        /\ dd = NoSurvey

\* C20, on a state: a feasible generation returns each stored entry with a
\* mounted filter exactly once and nothing else, the entries of the loaded
\* filter in their batch order, the others in their batch order, and leaves
\* the stored batch as it was.
C20_StablePartition ==
    DDGenerated =>
        /\ Len(last.result) = Len(MountedBatch)
        /\ \A i \in 1..Len(MountedBatch) :
               Count([k \in 1..Len(last.result) |-> Unstamped(last.result[k])],
                     MountedBatch[i])
                   = Count(MountedBatch, MountedBatch[i])
        /\ Class(last.result, TRUE) = Class(MountedBatch, TRUE)
        /\ Class(last.result, FALSE) = Class(MountedBatch, FALSE)
        /\ dd.observations = last.batch

\* C20, on a step: a generation that follows a generation under the same
\* conditions returns the same sequence
C20_SameAgain ==
    (/\ last.op = "DD.generate_observations_rough"
     /\ last'.op = "DD.generate_observations_rough"
     /\ last'.conditions = last.conditions) => last'.result = last.result

\* C20: generation returns a stable partition of the stored batch, does not
\* modify the stored batch, and so returns equal sequences on two calls under
\* the same conditions.
C20_StablePartitionRepeatable ==
    /\ []C20_StablePartition
    /\ [][C20_SameAgain]_vars

\* a generation kept two entries of the loaded filter at different positions
\* and two entries of other filters, out of a batch with an unmounted entry
C20_Witness ==
    /\ DDGenerated
    /\ Len(dd.observations) = 4
    /\ Len(last.result) = 4
    /\ last.result[1].filter = "r" /\ last.result[2].filter = "r"
    /\ last.result[1].RA # last.result[2].RA
    /\ last.result[3].filter = "g" /\ last.result[4].filter = "i"

---------------------------------------------------------------------------
(* Further claims about Conditions and the scripted survey *)

\* C21: whenever the limiting-magnitude cache is populated and the raw fields
\* allow the computation, the cache equals what a fresh computation from the
\* current sky brightness, seeing, exposure time and airmass gives.
C21_CacheNeverStale ==
    (cond.M5Depth # Unset /\ Computable(cond, "M5Depth")) =>
        cond.M5Depth[1] = Fresh(cond, "M5Depth")

\* C22: Scripted_survey.generate_observations returns only observations; with
\* no selectable wanted entry it returns the empty sequence, never a sequence
\* that holds None.
C22_NoNullPlaceholder ==
    (last.op = "Scripted.generate_observations" /\ has_script) =>
        /\ \A i \in 1..Len(last.result) : last.result[i] # NoObservation
        /\ Selectable = {} => last.result = <<>>

\* the raw fields a derived field is computed from have all been written
RawWritten(c, field) ==
    CASE field = "HA" -> c.lmst # Unset
      [] field \in {"alt", "az"} -> c.mjd # Unset
      [] field = "M5Depth" ->
            /\ c.airmass # Unset
            /\ \E f \in CondFilters : c.skybrightness[f] # Unset
            /\ \A f \in CondFilters :
                   c.skybrightness[f] # Unset => c.FWHMeff[f] # Unset

\* C23: a read of a derived field (hour angle, altitude, azimuth, limiting
\* magnitude) while a raw field it depends on has never been written ends in
\* an error: it returns no value, and no read returns a value cached by it.
C23_UnsetReadRaises ==
    \A field \in DerivedFields :
        (last.op = "get" /\ last.field = field /\ ~RawWritten(cond, field)) =>
            "raised" \in DOMAIN last.result

---------------------------------------------------------------------------
(* Further claims about the pairs survey *)

\* C27: an observation emitted by the pairs generation comes from a queue
\* entry, at the head or behind it, that is within the time tolerance of the
\* current time and whose altitude is strictly inside the band at that time.
C27_EmittedInWindowAndBand ==
    (last.op = "generate_observations" /\ last.result # <<>>) =>
        \E i \in 1..Len(last.purged) :
            /\ GeneratedAt(i)
            /\ InOwnWindow(last.purged[i], last.conditions)
            /\ InAltBand(last.purged[i], last.conditions)

\* two calls in a row under one snapshot: the reward, then the generation
RewardThenGenerate ==
    /\ last.op = "calc_reward_function"
    /\ last'.op = "generate_observations"
    /\ last'.conditions = last.conditions

\* C24: when calc_reward_function is followed by generate_observations under
\* the same snapshot, a reward of reward_val is followed by exactly one
\* observation and a reward of -infinity by an empty sequence.
C24_RewardAgreesWithGeneration ==
    [][RewardThenGenerate =>
          /\ last.result = Finite(reward_val) => Len(last'.result) = 1
          /\ last.result = NegInf => last'.result = <<>>]_vars

Sorted(queue) ==
    \A i \in 1..(Len(queue) - 1) : queue[i].mjd <= queue[i + 1].mjd

\* C25: when executed observations are reported in non-decreasing epoch
\* order, the pair queue is sorted by non-decreasing target epoch after every
\* add_observation, calc_reward_function and generate_observations.
C25_QueueSorted == Sorted(observing_queue)

\* a generation took an entry from between two others with different epochs
C25_Witness ==
    /\ last.op = "generate_observations"
    /\ Len(last.purged) = 3
    /\ GeneratedAt(2)
    /\ last.purged[1].RA # last.purged[2].RA
    /\ last.purged[1].mjd < last.purged[3].mjd
    /\ Sorted(observing_queue)

\* the entries add_observation can append
PairEntries == { obs_to_queue(o) : o \in LiveObservations }

InQueue(entry) == \E i \in 1..Len(observing_queue) : observing_queue[i] = entry

\* C26: while the clock keeps advancing and the reward or the generation
\* keeps being called, an entry that is in the pair queue is later out of it,
\* whatever order the queue is in.
C26_EveryEntryLeaves ==
    \A entry \in PairEntries : InQueue(entry) ~> ~InQueue(entry)

\* a call found a queue out of epoch order, every entry past its window, and
\* emptied it
C26_Witness ==
    /\ PairsCall
    /\ Len(last.queue) = 2
    /\ ~Sorted(last.queue)
    /\ \A i \in 1..Len(last.queue) : last.queue[i].mjd + ttol <= last.conditions.mjd
    /\ observing_queue = <<>>

=============================================================================
